---- MODULE Spec2Model ----
(***************************************************************************)
(* Immutable-data packaging core of the storage client:                    *)
(*   src/src/core/immutable_data.rs   create, get, extract_value,          *)
(*                                    get_value, pack, unpack              *)
(*   src/safe_core/src/utils/mod.rs   symmetric_encrypt, symmetric_decrypt *)
(*                                    derive_secrets                       *)
(*                                                                         *)
(* Byte strings are sequences of symbols.  A symbol stands for a fixed     *)
(* group of bytes of the wire format, all widths scaled to one symbol:     *)
(*   <<n>>          a plain byte group with value n (an enum tag, a        *)
(*                  length prefix, a nonce, a payload byte)                *)
(*   <<0, c>>       the content name (hash) of the byte string c           *)
(*   <<k, n, p>>    the SIV authentication tag of plaintext p sealed under *)
(*                  key k and nonce n                                      *)
(*   <<i, c>>       (i >= 1) the i-th group of the SHA-512 digest of c     *)
(* Hashes and authentication tags are injective, which is the usual        *)
(* collision-free / unforgeable idealisation; everything else (encoding,   *)
(* parsing, chunking, the size check) is computed symbol by symbol.        *)
(***************************************************************************)
EXTENDS Integers, Sequences, FiniteSets, TLC

VARIABLES
  store,   \* the network: the immutable objects stored, by name
  proc,    \* the invocation chains running on the event loop, by task
  scen,    \* the scenario: which payloads and which store the run starts from
  call     \* the call of a function of utils under evaluation, if any

vars == <<store, proc, scen, call>>

----------------------------------------------------------------------------
(* Bounds of the model *)

\* every byte string over {0,1} up to this length is a payload
SmallLen == 3
\* longer payloads (two fixed patterns per length) go up to this length
MaxLen == 9
\* nonces are drawn from 0..NonceMax
NonceMax == 2
\* depth of the chain an adversary has planted in the store (SpecAdv)
AdvDepth == 9
\* length of the one large payload of SpecDeep
DeepLen == 520
\* the number of recursion levels the specification lets pack and unpack use
DepthLimit == 8

\* routing::MAX_IMMUTABLE_DATA_SIZE_IN_BYTES (1 MiB), scaled to symbols
MAX_IMMUTABLE_DATA_SIZE_IN_BYTES == 9
\* self_encryption: the largest chunk, scaled to symbols
MAX_CHUNK_SIZE == 2
\* self_encryption: MIN_CHUNK_SIZE; shorter than three of them stays inline
MIN_CHUNK_SIZE == 1

Keys == {1, 2}
\* Option<Key>: 0 is None
NoKey == 0
KeyOptions == {NoKey} \cup Keys

----------------------------------------------------------------------------
(* Symbols and byte strings *)

B(n) == <<n>>

IsPlain(s) == Len(s) = 1

\* XorName of a value: the hash of its bytes
XorNameOf(value) == <<0, value>>

Nonces == {B(n) : n \in 0..NonceMax}

Reverse(s) == [i \in 1..Len(s) |-> s[Len(s) + 1 - i]]

Drop(s, n) == SubSeq(s, n + 1, Len(s))

RECURSIVE Concat(_)
Concat(ss) == IF ss = <<>> THEN <<>> ELSE Head(ss) \o Concat(Tail(ss))

\* a parse result: the value read and the bytes left over
ParseOk(v, rest) == [ok |-> TRUE, val |-> v, rest |-> rest]
ParseErr == [ok |-> FALSE, val |-> <<>>, rest |-> <<>>]

----------------------------------------------------------------------------
(* The binary encoding: an enum is its variant index followed by its      *)
(* fields, a Vec<u8> is its length followed by its bytes, a fixed array   *)
(* is its bytes.                                                          *)

encode_vec(bytes) == <<B(Len(bytes))>> \o bytes

decode_vec(s) ==
  IF Len(s) >= 1 /\ IsPlain(s[1]) /\ s[1][1] <= Len(s) - 1
  THEN ParseOk(SubSeq(s, 2, 1 + s[1][1]), Drop(s, 1 + s[1][1]))
  ELSE ParseErr

\* self_encryption::DataMap { Chunks(Vec<ChunkDetails>), Content(Vec<u8>), None }
DataMapChunks(names) == [kind |-> "Chunks", body |-> names]
DataMapContent(bytes) == [kind |-> "Content", body |-> bytes]
DataMapNone == [kind |-> "None", body |-> <<>>]

encode_data_map(dm) ==
  CASE dm.kind = "Chunks" -> <<B(0)>> \o encode_vec(dm.body)
    [] dm.kind = "Content" -> <<B(1)>> \o encode_vec(dm.body)
    [] OTHER -> <<B(2)>>

decode_data_map(s) ==
  IF Len(s) = 0 \/ ~IsPlain(s[1]) THEN ParseErr
  ELSE LET body == decode_vec(Tail(s)) IN
       CASE s[1][1] = 0 ->
              IF body.ok THEN ParseOk(DataMapChunks(body.val), body.rest) ELSE ParseErr
         [] s[1][1] = 1 ->
              IF body.ok THEN ParseOk(DataMapContent(body.val), body.rest) ELSE ParseErr
         [] s[1][1] = 2 -> ParseOk(DataMapNone, Tail(s))
         [] OTHER -> ParseErr

\* enum DataTypeEncoding { Serialised(Vec<u8>), DataMap(DataMap) }
Serialised(bytes) == [tag |-> "Serialised", bytes |-> bytes, map |-> DataMapNone]
DataMap(dm) == [tag |-> "DataMap", bytes |-> <<>>, map |-> dm]

encode_DataTypeEncoding(e) ==
  IF e.tag = "Serialised" THEN <<B(0)>> \o encode_vec(e.bytes)
  ELSE <<B(1)>> \o encode_data_map(e.map)

decode_DataTypeEncoding(s) ==
  IF Len(s) = 0 \/ ~IsPlain(s[1]) THEN ParseErr
  ELSE CASE s[1][1] = 0 ->
              LET v == decode_vec(Tail(s)) IN
              IF v.ok THEN ParseOk(Serialised(v.val), v.rest) ELSE ParseErr
         [] s[1][1] = 1 ->
              LET m == decode_data_map(Tail(s)) IN
              IF m.ok THEN ParseOk(DataMap(m.val), m.rest) ELSE ParseErr
         [] OTHER -> ParseErr

\* routing::ImmutableData: named by its value, encoded as its value alone
ImmutableData_new(value) == [name |-> XorNameOf(value), value |-> value]

encode_ImmutableData(data) == encode_vec(data.value)

decode_ImmutableData(s) ==
  LET v == decode_vec(s) IN
  IF v.ok THEN ParseOk(ImmutableData_new(v.val), v.rest) ELSE ParseErr

\* struct SymmetricEnc { nonce: SymEncNonce, cipher_text: Vec<u8> }
encode_SymmetricEnc(nonce, cipher_text) == <<nonce>> \o encode_vec(cipher_text)

decode_SymmetricEnc(s) ==
  IF Len(s) = 0 THEN ParseErr
  ELSE LET c == decode_vec(Tail(s)) IN
       IF c.ok THEN ParseOk([nonce |-> s[1], cipher_text |-> c.val], c.rest)
       ELSE ParseErr

----------------------------------------------------------------------------
(* AES-128-SIV (miscreant): seal prepends the authentication tag to the    *)
(* enciphered text; open recomputes the tag and rejects on a mismatch.     *)

SivTag(key, nonce, plain_text) == <<key, nonce, plain_text>>

seal(key, nonce, plain_text) ==
  <<SivTag(key, nonce, plain_text)>> \o Reverse(plain_text)

open(key, nonce, cipher_text) ==
  IF Len(cipher_text) >= 1
     /\ cipher_text[1] = SivTag(key, nonce, Reverse(Tail(cipher_text)))
  THEN ParseOk(Reverse(Tail(cipher_text)), <<>>)
  ELSE ParseErr

\* a result: Ok(val) or Err(err)
Ok(v) == [kind |-> "ok", val |-> v, err |-> ""]
Err(e) == [kind |-> "err", val |-> <<>>, err |-> e]
NoResult == [kind |-> "none", val |-> <<>>, err |-> ""]

\* the call of a function of utils: its arguments and what it returned
NoCall ==
  [fn |-> "none",
   plain |-> <<>>,        \* plain_text
   key |-> NoKey,         \* secret_key of symmetric_encrypt
   nonce |-> <<>>,        \* nonce: Option<&SymEncNonce>, <<>> is None
   used |-> <<>>,         \* the nonce symmetric_encrypt sealed with
   blob |-> <<>>,         \* what symmetric_encrypt returned, as it is now
   altered |-> "no",      \* what was done to blob since
   dkey |-> NoKey,        \* secret_key of symmetric_decrypt
   out |-> NoResult,      \* what symmetric_decrypt returned
   locator |-> <<>>,      \* acc_locator
   passphrase |-> <<>>,   \* acc_password
   secrets |-> <<>>]      \* what derive_secrets returned

\* symmetric_encrypt, mutated: the container carries another nonce than the
\* one the text was sealed with
symmetric_encrypt_other_nonce(plain_text, secret_key, nonce) ==
  encode_SymmetricEnc(B(0), seal(secret_key, nonce, plain_text))

\* utils::symmetric_encrypt; nonce is the one supplied or the one generated
symmetric_encrypt(plain_text, secret_key, nonce) ==
  encode_SymmetricEnc(nonce, seal(secret_key, nonce, plain_text))

\* symmetric_decrypt, mutated: the text is deciphered without checking the
\* authentication tag
symmetric_decrypt_unauthenticated(cipher_text, secret_key) ==
  LET enc == decode_SymmetricEnc(cipher_text) IN
  IF ~enc.ok THEN Err("SerializationFailure")
  ELSE IF Len(enc.val.cipher_text) = 0 THEN Err("SymmetricDecipherFailure")
  ELSE Ok(Reverse(Tail(enc.val.cipher_text)))

\* utils::symmetric_decrypt
symmetric_decrypt(cipher_text, secret_key) ==
  LET enc == decode_SymmetricEnc(cipher_text) IN
  IF ~enc.ok THEN Err("SerializationFailure")
  ELSE LET plain == open(secret_key, enc.val.nonce, enc.val.cipher_text) IN
       IF plain.ok THEN Ok(plain.val) ELSE Err("SymmetricDecipherFailure")

\* the nonce choice of symmetric_encrypt, mutated: a supplied nonce is
\* ignored
nonce_always_generated(nonce, generated) == generated

\* symmetric_encrypt's match on nonce: the one supplied, else the one
\* generate_nonce() draws
nonce_or_generated(nonce, generated) ==
  IF nonce # <<>> THEN nonce[1] ELSE generated

----------------------------------------------------------------------------
(* Secret derivation.  sha512::hash is injective (collision-free); its     *)
(* digest has DIGESTBYTES groups.                                          *)

\* rust_sodium sha512::DIGESTBYTES (64), scaled to symbols
DIGESTBYTES == 2

sha512_hash(m) == [i \in 1..DIGESTBYTES |-> <<i, m>>]

\* derive_secrets, mutated: the pin is hashed from the first half of the
\* locator's digest
derive_secrets_first_half(acc_locator, acc_password) ==
  LET locator_hash == sha512_hash(acc_locator)
      pin == sha512_hash(SubSeq(locator_hash, 1, DIGESTBYTES \div 2))
      keyword == locator_hash
      password == sha512_hash(acc_password)
  IN <<password, keyword, pin>>

\* utils::derive_secrets: (password, keyword, pin)
derive_secrets(acc_locator, acc_password) ==
  LET locator_hash == sha512_hash(acc_locator)
      pin == sha512_hash(SubSeq(locator_hash, DIGESTBYTES \div 2 + 1,
                                DIGESTBYTES))
      keyword == locator_hash
      password == sha512_hash(acc_password)
  IN <<password, keyword, pin>>

----------------------------------------------------------------------------
(* The self-encryption engine (external crate), by its contract: close    *)
(* splits the written bytes into chunks, stores each enciphered chunk     *)
(* under the name of its content and returns the data map; read fetches   *)
(* the chunks a data map names and restores the bytes.                    *)

Min(a, b) == IF a < b THEN a ELSE b

ChunkCount(data) == (Len(data) + MAX_CHUNK_SIZE - 1) \div MAX_CHUNK_SIZE

RawChunk(data, i) ==
  SubSeq(data, (i - 1) * MAX_CHUNK_SIZE + 1, Min(i * MAX_CHUNK_SIZE, Len(data)))

\* the enciphered chunks close() hands to the storage, in order
se_chunks(data) ==
  IF Len(data) < 3 * MIN_CHUNK_SIZE THEN <<>>
  ELSE [i \in 1..ChunkCount(data) |-> Reverse(RawChunk(data, i))]

\* the data map close() returns
se_data_map(data) ==
  IF Len(data) = 0 THEN DataMapNone
  ELSE IF Len(data) < 3 * MIN_CHUNK_SIZE THEN DataMapContent(data)
  ELSE DataMapChunks([i \in 1..ChunkCount(data) |->
                        XorNameOf(Reverse(RawChunk(data, i)))])

\* the names of a sequence of chunks
Names(chunks) == {XorNameOf(chunks[i]) : i \in 1..Len(chunks)}

\* the chunk names read() must fetch for a data map
se_needed(dm) == IF dm.kind = "Chunks" THEN dm.body ELSE <<>>

\* the bytes read(0, len()) returns once the chunks are fetched
se_read(dm, fetched) ==
  IF dm.kind = "Chunks"
  THEN Concat([i \in 1..Len(fetched) |-> Reverse(fetched[i])])
  ELSE dm.body

----------------------------------------------------------------------------
(* One invocation chain of the client API (one task of the event loop):    *)
(* create, then the caller's PUT of the root, then get_value or            *)
(* extract_value.  pc is the suspension point the task is parked at.       *)

Frame ==
  [pc |-> "idle",
   value |-> <<>>,         \* the payload given to create
   key |-> NoKey,         \* encryption_key
   dkey |-> NoKey,        \* decryption_key
   pend |-> <<>>,          \* chunks close() has still to PUT
   map |-> DataMapNone,   \* the data map being closed or read
   need |-> <<>>,          \* chunk names read() has still to GET
   got |-> <<>>,           \* chunks read() has fetched
   buf |-> <<>>,           \* the value unpack resolved with
   level |-> 0,           \* recursion depth of pack, then of unpack
   root |-> <<>>,          \* the ImmutableData create returned, if any
   name |-> <<>>,          \* the name get was called with, if any
   emitted |-> {},        \* names of the chunks its self-encryptors emitted
   wrote |-> {},          \* names this invocation has PUT through the storage
   data |-> <<>>,          \* the object extract_value was called with, if any
   extracts |-> 0,        \* calls of extract_value
   gets |-> 0,            \* network GETs issued by get
   op |-> "none",         \* the read operation called: get_value or extract_value
   reply |-> "none",      \* what the network answered to get
   result |-> NoResult]   \* what the read operation returned

\* fail, mutated: the error is noted but the chain is not ended
fail_and_continue(f, e) == [f EXCEPT !.result = Err(e)]

\* the future resolves with an error
fail(f, e) == [f EXCEPT !.pc = "done", !.result = Err(e)]

\* pack, mutated: the size check is made on the raw value
pack_checks_value(f, value) ==
  LET data == ImmutableData_new(value)
      serialised_data == encode_ImmutableData(data)
  IN IF Len(value) > MAX_IMMUTABLE_DATA_SIZE_IN_BYTES
     THEN [f EXCEPT !.pc = "pack_close",
                    !.pend = se_chunks(serialised_data),
                    !.map = se_data_map(serialised_data),
                    !.emitted = @ \cup Names(se_chunks(serialised_data)),
                    !.level = @ + 1]
     ELSE [f EXCEPT !.pc = "created", !.root = <<data>>]

\* pack, mutated: an object of exactly the maximum size is self-encrypted
pack_exclusive(f, value) ==
  LET data == ImmutableData_new(value)
      serialised_data == encode_ImmutableData(data)
  IN IF Len(serialised_data) >= MAX_IMMUTABLE_DATA_SIZE_IN_BYTES
     THEN [f EXCEPT !.pc = "pack_close",
                    !.pend = se_chunks(serialised_data),
                    !.map = se_data_map(serialised_data),
                    !.emitted = @ \cup Names(se_chunks(serialised_data)),
                    !.level = @ + 1]
     ELSE [f EXCEPT !.pc = "created", !.root = <<data>>]

\* pack, up to its first suspension: returns the object when it fits, else
\* starts self-encrypting the serialised object
pack(f, value) ==
  LET data == ImmutableData_new(value)
      serialised_data == encode_ImmutableData(data)
  IN IF Len(serialised_data) > MAX_IMMUTABLE_DATA_SIZE_IN_BYTES
     THEN [f EXCEPT !.pc = "pack_close",
                    !.pend = se_chunks(serialised_data),
                    !.map = se_data_map(serialised_data),
                    !.emitted = @ \cup Names(se_chunks(serialised_data)),
                    !.level = @ + 1]
     ELSE [f EXCEPT !.pc = "created", !.root = <<data>>]

\* create's closure, mutated: the nonce drawn is put into the envelope even
\* when there is no key
create_closure_with_nonce(f, data_map, nonce) ==
  LET serialised_data_map == encode_data_map(data_map)
      value == IF f.key # NoKey
               THEN encode_DataTypeEncoding(Serialised(
                      symmetric_encrypt(serialised_data_map, f.key, nonce)))
               ELSE encode_DataTypeEncoding(Serialised(
                      serialised_data_map \o <<nonce>>))
  IN pack([f EXCEPT !.level = 0], value)

\* create's closure, mutated: without a key the data map is wrapped as a
\* DataMap envelope
create_closure_as_data_map(f, data_map, nonce) ==
  LET serialised_data_map == encode_data_map(data_map)
      value == IF f.key # NoKey
               THEN encode_DataTypeEncoding(Serialised(
                      symmetric_encrypt(serialised_data_map, f.key, nonce)))
               ELSE encode_DataTypeEncoding(DataMap(data_map))
  IN pack([f EXCEPT !.level = 0], value)

\* the closure of create that runs when close() resolves with data_map
create_closure(f, data_map, nonce) ==
  LET serialised_data_map == encode_data_map(data_map)
      value == IF f.key # NoKey
               THEN encode_DataTypeEncoding(Serialised(
                      symmetric_encrypt(serialised_data_map, f.key, nonce)))
               ELSE encode_DataTypeEncoding(Serialised(serialised_data_map))
  IN pack([f EXCEPT !.level = 0], value)

\* the closure of pack that runs when close() resolves with data_map
pack_closure(f, data_map) ==
  pack(f, encode_DataTypeEncoding(DataMap(data_map)))

\* the closures of extract_value that run when unpack resolves with value
extract_closure(f, value) ==
  LET plain_text == IF f.dkey # NoKey THEN symmetric_decrypt(value, f.dkey)
                    ELSE Ok(value)
      data_map == decode_data_map(plain_text.val)
  IN IF plain_text.kind = "err" THEN fail(f, plain_text.err)
     ELSE IF ~data_map.ok THEN fail(f, "SerializationFailure")
     ELSE [f EXCEPT !.pc = "extract_read",
                    !.map = data_map.val,
                    !.need = se_needed(data_map.val),
                    !.got = <<>>]

\* unpack, up to its first suspension: resolves with the value of a
\* Serialised envelope, else starts reading what the data map names
unpack(f, data) ==
  LET enc == decode_DataTypeEncoding(data.value) IN
  IF ~enc.ok THEN fail(f, "SerializationFailure")
  ELSE IF enc.val.tag = "Serialised"
  THEN [f EXCEPT !.pc = "unpacked", !.buf = enc.val.bytes]
  ELSE [f EXCEPT !.pc = "unpack_read",
                 !.map = enc.val.map,
                 !.need = se_needed(enc.val.map),
                 !.got = <<>>,
                 !.level = @ + 1]

\* unpack's closure, mutated: the object read is taken for the last level
unpack_closure_one_level(f, serialised_data) ==
  LET data == decode_ImmutableData(serialised_data) IN
  IF ~data.ok THEN fail(f, "SerializationFailure")
  ELSE [f EXCEPT !.pc = "unpacked", !.buf = data.val.value]

\* the closure of unpack that runs when read() resolves with serialised_data
unpack_closure(f, serialised_data) ==
  LET data == decode_ImmutableData(serialised_data) IN
  IF ~data.ok THEN fail(f, "SerializationFailure")
  ELSE unpack(f, data.val)

\* unpack(..).and_then(closures of extract_value): they run in the step in
\* which unpack resolves
and_then_extract(f) ==
  IF f.pc = "unpacked" THEN extract_closure(f, f.buf) ELSE f

\* extract_value, up to its first suspension
extract_value(f, data, decryption_key) ==
  and_then_extract(unpack([f EXCEPT !.dkey = decryption_key, !.level = 0,
                                    !.data = <<data>>, !.extracts = @ + 1],
                          data))

\* get, mutated: data of any type is passed on
get_any_type(reply) ==
  IF reply.kind \in {"Immutable", "Structured"} THEN Ok(reply.value)
  ELSE Err(reply.kind)

\* get: the closure that runs on the network's answer
get(reply) ==
  IF reply.kind = "Immutable" THEN Ok(reply.value)
  ELSE IF reply.kind = "Structured" THEN Err("ReceivedUnexpectedData")
  ELSE Err(reply.kind)

\* get_value: get(..).and_then(extract_value)
get_value_closure(f, got) ==
  IF got.kind = "ok"
  THEN extract_value(f, ImmutableData_new(got.val), f.dkey)
  ELSE fail(f, got.err)

----------------------------------------------------------------------------
(* The network: a store of immutable objects by name.  A GET answers with  *)
(* the object stored under the name, with an error when there is none, or  *)
(* (a misbehaving vault) with data of another type.                        *)

StorePut(st, value) ==
  [n \in DOMAIN st \cup {XorNameOf(value)} |->
     IF n = XorNameOf(value) THEN value ELSE st[n]]

RECURSIVE StorePutAll(_, _)
StorePutAll(st, values) ==
  IF values = <<>> THEN st
  ELSE StorePutAll(StorePut(st, Head(values)), Tail(values))

EmptyStore == [n \in {} |-> <<>>]

Replies(name) ==
  (IF name \in DOMAIN store
   THEN {[kind |-> "Immutable", value |-> store[name]]}
   ELSE {[kind |-> "NoSuchData", value |-> <<>>]})
  \cup {[kind |-> "Structured", value |-> <<>>]}

----------------------------------------------------------------------------
(* What the caller may present *)

RECURSIVE BitStrings(_)
BitStrings(n) ==
  IF n = 0 THEN {<<>>}
  ELSE LET shorter == BitStrings(n - 1) IN
       shorter \cup {Append(t, B(b)) : t \in {u \in shorter : Len(u) = n - 1},
                                        b \in {0, 1}}

PatternPayloads ==
  {[i \in 1..n |-> B(0)] : n \in (SmallLen + 1)..MaxLen}
  \cup {[i \in 1..n |-> B(i % 2)] : n \in (SmallLen + 1)..MaxLen}

\* a payload that is itself a box sealed under key k with the Content tag
\* of the data map encoding as its nonce
SealedPayloads ==
  {seal(k, B(1), encode_data_map(DataMapNone)) : k \in Keys}

DeepPayload == [i \in 1..DeepLen |-> B(i % 2)]

\* the payload of two concurrent tasks: it takes a pack recursion without a
\* key, two with one
TwoPayloads == {[i \in 1..MaxLen |-> B(0)]}

Payloads ==
  IF scen = "deep" THEN {DeepPayload}
  ELSE IF scen = "two" THEN TwoPayloads
  ELSE BitStrings(SmallLen) \cup PatternPayloads \cup SealedPayloads

\* the keys and nonces a task may draw
KeyChoices == IF scen = "two" THEN {NoKey, 1} ELSE KeyOptions
NonceChoices == IF scen = "two" THEN {B(0), B(1)} ELSE Nonces

\* the chain an adversary plants: level i + 1 is the data map of level i,
\* every object within the size limit
RECURSIVE AdvEnvelope(_)
AdvEnvelope(d) ==
  IF d = 0
  THEN encode_DataTypeEncoding(Serialised(encode_data_map(DataMapNone)))
  ELSE encode_DataTypeEncoding(DataMap(se_data_map(
         encode_ImmutableData(ImmutableData_new(AdvEnvelope(d - 1))))))

RECURSIVE AdvStore(_)
AdvStore(d) ==
  IF d = 0 THEN StorePut(EmptyStore, AdvEnvelope(0))
  ELSE StorePut(
         StorePutAll(AdvStore(d - 1),
                     se_chunks(encode_ImmutableData(
                                 ImmutableData_new(AdvEnvelope(d - 1))))),
         AdvEnvelope(d))

\* pack run to its end with no other task on the event loop: the root
RECURSIVE pack_alone(_)
pack_alone(value) ==
  LET data == ImmutableData_new(value)
      serialised_data == encode_ImmutableData(data)
  IN IF Len(serialised_data) > MAX_IMMUTABLE_DATA_SIZE_IN_BYTES
     THEN pack_alone(encode_DataTypeEncoding(DataMap(
                       se_data_map(serialised_data))))
     ELSE data

\* pack run to its end with no other task on the event loop: the chunks PUT
RECURSIVE pack_alone_chunks(_)
pack_alone_chunks(value) ==
  LET serialised_data == encode_ImmutableData(ImmutableData_new(value))
  IN IF Len(serialised_data) > MAX_IMMUTABLE_DATA_SIZE_IN_BYTES
     THEN se_chunks(serialised_data)
          \o pack_alone_chunks(encode_DataTypeEncoding(DataMap(
                                  se_data_map(serialised_data))))
     ELSE <<>>

\* the envelope create hands to pack
create_envelope(value, encryption_key, nonce) ==
  IF encryption_key # NoKey
  THEN encode_DataTypeEncoding(Serialised(
         symmetric_encrypt(encode_data_map(se_data_map(value)),
                           encryption_key, nonce)))
  ELSE encode_DataTypeEncoding(Serialised(
         encode_data_map(se_data_map(value))))

\* create run to its end with no other task on the event loop
create_alone(value, encryption_key, nonce) ==
  pack_alone(create_envelope(value, encryption_key, nonce))

\* the chunks st holds for the names of a data map, in order
Fetched(st, dm) == [i \in 1..Len(se_needed(dm)) |-> st[se_needed(dm)[i]]]

Readable(st, dm) ==
  \A i \in 1..Len(se_needed(dm)) : se_needed(dm)[i] \in DOMAIN st

\* unpack run to its end on store st with no other task on the event loop
RECURSIVE unpack_alone(_, _)
unpack_alone(st, value) ==
  LET enc == decode_DataTypeEncoding(value) IN
  IF ~enc.ok THEN Err("SerializationFailure")
  ELSE IF enc.val.tag = "Serialised" THEN Ok(enc.val.bytes)
  ELSE IF ~Readable(st, enc.val.map) THEN Err("SelfEncryptionFailure")
  ELSE LET data == decode_ImmutableData(
                     se_read(enc.val.map, Fetched(st, enc.val.map)))
       IN IF ~data.ok THEN Err("SerializationFailure")
          ELSE unpack_alone(st, data.val.value)

\* extract_value run to its end on store st with no other task on the
\* event loop
extract_value_alone(st, value, decryption_key) ==
  LET unpacked == unpack_alone(st, value)
      plain_text == IF unpacked.kind = "ok" /\ decryption_key # NoKey
                    THEN symmetric_decrypt(unpacked.val, decryption_key)
                    ELSE unpacked
      data_map == decode_data_map(plain_text.val)
  IN IF plain_text.kind = "err" THEN plain_text
     ELSE IF ~data_map.ok THEN Err("SerializationFailure")
     ELSE IF ~Readable(st, data_map.val) THEN Err("SelfEncryptionFailure")
     ELSE Ok(se_read(data_map.val, Fetched(st, data_map.val)))

\* the store after create(value, None) and the caller's PUT of the root
StoredAlone(value) ==
  StorePut(StorePutAll(EmptyStore,
                       se_chunks(value)
                       \o pack_alone_chunks(
                            create_envelope(value, NoKey, B(0)))),
           create_alone(value, NoKey, B(0)).value)

\* the payload stored before the two tasks start, its root and the store
\* that holds it
StoredPayload == [i \in 1..MaxLen |-> B(0)]

StoredRoot == create_alone(StoredPayload, NoKey, B(0))

StoredStore == StoredAlone(StoredPayload)

\* objects another client has stored that create would never produce
\* a value whose first byte is no variant of DataTypeEncoding
BadEnvelope == <<B(7)>>
\* a DataMap envelope whose data map reads to bytes that are no object
BadObject == encode_DataTypeEncoding(DataMap(DataMapContent(<<B(5)>>)))
\* a DataMap envelope whose data map reads to an object that is no envelope
BadInnerEnvelope ==
  encode_DataTypeEncoding(DataMap(DataMapContent(
    encode_ImmutableData(ImmutableData_new(BadEnvelope)))))
\* a Serialised envelope whose bytes are neither a data map nor a sealed box
BadDataMap == encode_DataTypeEncoding(Serialised(<<B(7)>>))
\* a DataMap envelope naming a chunk nobody stored
MissingChunk ==
  encode_DataTypeEncoding(DataMap(DataMapChunks(<<XorNameOf(<<B(7)>>)>>)))

MalformedValues ==
  <<BadEnvelope, BadObject, BadInnerEnvelope, BadDataMap, MissingChunk>>

MalformedStore == StorePutAll(EmptyStore, MalformedValues)

\* the names the caller can ask for
KnownNames(f) ==
  {f.root[i].name : i \in 1..Len(f.root)}
  \cup (IF scen = "adv" THEN {XorNameOf(AdvEnvelope(AdvDepth))} ELSE {})
  \cup (IF scen = "faulty" THEN DOMAIN MalformedStore ELSE {})
  \cup (IF scen = "two" THEN {StoredRoot.name} ELSE {})

----------------------------------------------------------------------------
(* Actions *)

\* Create, mutated: the invocations share one self-encryptor, and writing
\* it anew discards what the others had still to store
Create_shared_encryptor(p) ==
  /\ proc[p].pc = "idle"
  /\ \E v \in Payloads, k \in KeyChoices :
       proc' = [q \in DOMAIN proc |->
                  IF q = p
                  THEN [Frame EXCEPT !.pc = "create_close", !.value = v,
                                     !.key = k, !.pend = se_chunks(v),
                                     !.map = se_data_map(v),
                                     !.emitted = Names(se_chunks(v))]
                  ELSE [proc[q] EXCEPT !.pend = <<>>]]
  /\ UNCHANGED <<store, scen, call>>

\* create is called: the self-encryptor is written and close() begins
Create(p) ==
  /\ proc[p].pc = "idle"
  /\ \E v \in Payloads, k \in KeyChoices :
       proc' = [proc EXCEPT ![p] =
                  [Frame EXCEPT !.pc = "create_close", !.value = v, !.key = k,
                                !.pend = se_chunks(v), !.map = se_data_map(v),
                                !.emitted = Names(se_chunks(v))]]
  /\ UNCHANGED <<store, scen, call>>

\* the storage PUT of one chunk completes
StoragePut(p) ==
  /\ proc[p].pc \in {"create_close", "pack_close"}
  /\ proc[p].pend # <<>>
  /\ store' = StorePut(store, Head(proc[p].pend))
  /\ proc' = [proc EXCEPT ![p].pend = Tail(@),
                          ![p].wrote = @ \cup {XorNameOf(Head(proc[p].pend))}]
  /\ UNCHANGED <<scen, call>>

\* CreateClosed, mutated: the closure runs without waiting for close()
CreateClosed_without_close(p) ==
  /\ proc[p].pc = "create_close"
  /\ \E nonce \in NonceChoices :
       proc' = [proc EXCEPT ![p] = create_closure(proc[p], proc[p].map, nonce)]
  /\ UNCHANGED <<store, scen, call>>

\* CreateClosed, mutated: create PUTs the root it is about to return
CreateClosed_puts_root(p) ==
  /\ proc[p].pc = "create_close"
  /\ proc[p].pend = <<>>
  /\ \E nonce \in NonceChoices :
       LET f == create_closure(proc[p], proc[p].map, nonce) IN
       /\ proc' = [proc EXCEPT ![p] = f]
       /\ store' = IF f.pc = "created" THEN StorePut(store, f.root[1].value)
                   ELSE store
  /\ UNCHANGED <<scen, call>>

\* close() of create's self-encryptor resolves
CreateClosed(p) ==
  /\ proc[p].pc = "create_close"
  /\ proc[p].pend = <<>>
  /\ \E nonce \in NonceChoices :
       proc' = [proc EXCEPT ![p] = create_closure(proc[p], proc[p].map, nonce)]
  /\ UNCHANGED <<store, scen, call>>

\* close() of pack's self-encryptor resolves
PackClosed(p) ==
  /\ proc[p].pc = "pack_close"
  /\ proc[p].pend = <<>>
  /\ proc' = [proc EXCEPT ![p] = pack_closure(proc[p], proc[p].map)]
  /\ UNCHANGED <<store, scen, call>>

\* the caller PUTs the root object create returned
Put(p) ==
  /\ proc[p].pc = "created"
  /\ store' = StorePut(store, proc[p].root[1].value)
  /\ proc' = [proc EXCEPT ![p].pc = "stored"]
  /\ UNCHANGED <<scen, call>>

\* get_value is called: get issues the network GET
GetValue(p) ==
  /\ proc[p].pc \in {"idle", "created", "stored"}
  /\ \E name \in KnownNames(proc[p]), k \in KeyChoices :
       proc' = [proc EXCEPT ![p].pc = "get", ![p].op = "get_value",
                            ![p].name = <<name>>, ![p].dkey = k,
                            ![p].gets = @ + 1]
  /\ UNCHANGED <<store, scen, call>>

\* the network answers get
GetReply(p) ==
  /\ proc[p].pc = "get"
  /\ \E reply \in Replies(proc[p].name[1]) :
       proc' = [proc EXCEPT ![p] =
                  get_value_closure([proc[p] EXCEPT !.reply = reply.kind],
                                    get(reply))]
  /\ UNCHANGED <<store, scen, call>>

\* extract_value is called on the root object create returned
ExtractValue(p) ==
  /\ proc[p].pc \in {"created", "stored"}
  /\ \E k \in KeyChoices :
       proc' = [proc EXCEPT ![p] =
                  extract_value([proc[p] EXCEPT !.op = "extract_value"],
                                proc[p].root[1], k)]
  /\ UNCHANGED <<store, scen, call>>

\* the storage GET of one chunk completes, or fails when there is none
StorageGet(p) ==
  /\ proc[p].pc \in {"unpack_read", "extract_read"}
  /\ proc[p].need # <<>>
  /\ proc' = [proc EXCEPT ![p] =
                IF Head(proc[p].need) \in DOMAIN store
                THEN [proc[p] EXCEPT !.need = Tail(@),
                                     !.got = Append(@, store[Head(proc[p].need)])]
                ELSE fail(proc[p], "SelfEncryptionFailure")]
  /\ UNCHANGED <<store, scen, call>>

\* read() of unpack's self-encryptor resolves
UnpackRead(p) ==
  /\ proc[p].pc = "unpack_read"
  /\ proc[p].need = <<>>
  /\ proc' = [proc EXCEPT ![p] =
                and_then_extract(
                  unpack_closure(proc[p], se_read(proc[p].map, proc[p].got)))]
  /\ UNCHANGED <<store, scen, call>>

\* read() of extract_value's self-encryptor resolves
ExtractRead(p) ==
  /\ proc[p].pc = "extract_read"
  /\ proc[p].need = <<>>
  /\ proc' = [proc EXCEPT ![p].pc = "done",
                          ![p].result = Ok(se_read(proc[p].map, proc[p].got))]
  /\ UNCHANGED <<store, scen, call>>

\* StoragePutFails, mutated: the chunks written so far are taken back
StoragePutFails_rolls_back(p) ==
  /\ proc[p].pc \in {"create_close", "pack_close"}
  /\ proc[p].pend # <<>>
  /\ proc' = [proc EXCEPT ![p] = fail(proc[p], "SelfEncryptionFailure")]
  /\ store' = [n \in DOMAIN store \ proc[p].wrote |-> store[n]]
  /\ UNCHANGED <<scen, call>>

\* the storage PUT of a chunk fails: write/close resolves with the error
StoragePutFails(p) ==
  /\ proc[p].pc \in {"create_close", "pack_close"}
  /\ proc[p].pend # <<>>
  /\ proc' = [proc EXCEPT ![p] = fail(proc[p], "SelfEncryptionFailure")]
  /\ UNCHANGED <<store, scen, call>>

\* the storage GET of a chunk fails though the chunk is stored: read
\* resolves with the error
StorageGetFails(p) ==
  /\ proc[p].pc \in {"unpack_read", "extract_read"}
  /\ proc[p].need # <<>>
  /\ proc' = [proc EXCEPT ![p] = fail(proc[p], "SelfEncryptionFailure")]
  /\ UNCHANGED <<store, scen, call>>

\* the caller drops the pending future: nothing of it runs any more
DropFuture(p) ==
  /\ proc[p].pc \in {"create_close", "pack_close", "get", "unpack_read",
                     "extract_read"}
  /\ proc' = [proc EXCEPT ![p].pc = "dropped"]
  /\ UNCHANGED <<store, scen, call>>

Next ==
  \/ \E p \in DOMAIN proc : Create(p)
  \/ \E p \in DOMAIN proc : StoragePut(p)
  \/ \E p \in DOMAIN proc : CreateClosed(p)
  \/ \E p \in DOMAIN proc : PackClosed(p)
  \/ \E p \in DOMAIN proc : Put(p)
  \/ \E p \in DOMAIN proc : GetValue(p)
  \/ \E p \in DOMAIN proc : GetReply(p)
  \/ \E p \in DOMAIN proc : ExtractValue(p)
  \/ \E p \in DOMAIN proc : StorageGet(p)
  \/ \E p \in DOMAIN proc : UnpackRead(p)
  \/ \E p \in DOMAIN proc : ExtractRead(p)

\* a fresh network and one task
Init ==
  /\ scen = "std"
  /\ store = EmptyStore
  /\ proc = [p \in {1} |-> Frame]
  /\ call = NoCall

\* a store an adversary has populated
InitAdv ==
  /\ scen = "adv"
  /\ store = AdvStore(AdvDepth)
  /\ proc = [p \in {1} |-> Frame]
  /\ call = NoCall

\* a fresh network and a caller with one large payload
InitDeep ==
  /\ scen = "deep"
  /\ store = EmptyStore
  /\ proc = [p \in {1} |-> Frame]
  /\ call = NoCall

\* a network on which storage operations can fail and that holds malformed
\* objects, and a caller that can drop its futures
InitFaulty ==
  /\ scen = "faulty"
  /\ store = MalformedStore
  /\ proc = [p \in {1} |-> Frame]
  /\ call = NoCall

\* two tasks on the event loop, on a store that holds a complete object
InitTwo ==
  /\ scen = "two"
  /\ store = StoredStore
  /\ proc = [p \in {1, 2} |-> Frame]
  /\ call = NoCall

NextFaulty ==
  \/ Next
  \/ \E p \in DOMAIN proc : StoragePutFails(p)
  \/ \E p \in DOMAIN proc : StorageGetFails(p)
  \/ \E p \in DOMAIN proc : DropFuture(p)

----------------------------------------------------------------------------
(* Calls of the functions of utils: one call of symmetric_encrypt, what an *)
(* attacker may do to the bytes it returned, one call of                   *)
(* symmetric_decrypt; or one call of derive_secrets.                       *)

Plaintexts == BitStrings(SmallLen)

\* Option<&SymEncNonce>
NonceOptions == {<<>>} \cup {<<n>> : n \in Nonces}

\* any bytes are a locator or a pass-phrase: plain ones, and the bytes of
\* a digest or of its second half
Locators ==
  BitStrings(SmallLen)
  \cup {SubSeq(sha512_hash(l), DIGESTBYTES \div 2 + 1, DIGESTBYTES) :
          l \in BitStrings(SmallLen)}
  \cup {sha512_hash(l) : l \in BitStrings(SmallLen)}

Passphrases == Locators

SymmetricEncrypt ==
  /\ call.fn = "none"
  /\ \E plain_text \in Plaintexts, secret_key \in Keys,
        nonce \in NonceOptions, generated \in Nonces :
       call' = [NoCall EXCEPT
                  !.fn = "encrypted", !.plain = plain_text,
                  !.key = secret_key, !.nonce = nonce,
                  !.used = nonce_or_generated(nonce, generated),
                  !.blob = symmetric_encrypt(
                             plain_text, secret_key,
                             nonce_or_generated(nonce, generated))]
  /\ UNCHANGED <<store, proc, scen>>

\* the bytes are cut short
TruncateBlob ==
  /\ call.fn = "encrypted" /\ call.altered = "no"
  /\ \E n \in 0..(Len(call.blob) - 1) :
       call' = [call EXCEPT !.blob = SubSeq(call.blob, 1, n),
                            !.altered = "blob truncated"]
  /\ UNCHANGED <<store, proc, scen>>

\* the container is rebuilt around a changed nonce or cipher text
AlterContainer ==
  /\ call.fn = "encrypted" /\ call.altered = "no"
  /\ LET enc == decode_SymmetricEnc(call.blob).val IN
     \/ \E n \in 0..(Len(enc.cipher_text) - 1) :
          call' = [call EXCEPT
                     !.blob = encode_SymmetricEnc(
                                enc.nonce, SubSeq(enc.cipher_text, 1, n)),
                     !.altered = "cipher text truncated"]
     \/ \E i \in 1..Len(enc.cipher_text) :
        \E s \in {B(0), B(1)} \ {enc.cipher_text[i]} :
          call' = [call EXCEPT
                     !.blob = encode_SymmetricEnc(
                                enc.nonce,
                                [enc.cipher_text EXCEPT ![i] = s]),
                     !.altered = "cipher text changed"]
     \/ \E n \in Nonces \ {enc.nonce} :
          call' = [call EXCEPT
                     !.blob = encode_SymmetricEnc(n, enc.cipher_text),
                     !.altered = "nonce changed"]
  /\ UNCHANGED <<store, proc, scen>>

SymmetricDecrypt ==
  /\ call.fn = "encrypted"
  /\ \E secret_key \in Keys :
       call' = [call EXCEPT
                  !.fn = "decrypted", !.dkey = secret_key,
                  !.out = symmetric_decrypt(call.blob, secret_key)]
  /\ UNCHANGED <<store, proc, scen>>

DeriveSecrets ==
  /\ call.fn = "none"
  /\ \E acc_locator \in Locators, acc_password \in Passphrases :
       call' = [NoCall EXCEPT
                  !.fn = "derived", !.locator = acc_locator,
                  !.passphrase = acc_password,
                  !.secrets = derive_secrets(acc_locator, acc_password)]
  /\ UNCHANGED <<store, proc, scen>>

InitUtils ==
  /\ scen = "utils"
  /\ store = EmptyStore
  /\ proc = [p \in {} |-> Frame]
  /\ call = NoCall

NextUtils ==
  \/ SymmetricEncrypt
  \/ TruncateBlob
  \/ AlterContainer
  \/ SymmetricDecrypt
  \/ DeriveSecrets

SpecUtils == InitUtils /\ [][NextUtils]_vars

Spec == Init /\ [][Next]_vars

SpecFaulty == InitFaulty /\ [][NextFaulty]_vars

SpecTwo == InitTwo /\ [][Next]_vars

SpecAdv == InitAdv /\ [][Next]_vars

SpecDeep == InitDeep /\ [][Next]_vars

----------------------------------------------------------------------------
(* Properties *)

\* the read operation of task p ran on the root object its own create
\* returned: extract_value on it, or get_value answered with it
ReadOwnRoot(f) ==
  /\ f.pc = "done"
  /\ f.root # <<>>
  /\ \/ f.op = "extract_value"
     \/ f.op = "get_value" /\ f.reply = "Immutable"
                           /\ f.name = <<f.root[1].name>>

\* C1: a payload created without a key and read back without a key, by
\* get_value after the caller's PUT or by extract_value on the root, comes
\* back exactly, whatever number of pack levels it took
RoundTripUnencrypted ==
  \A p \in DOMAIN proc :
    ReadOwnRoot(proc[p]) /\ proc[p].key = NoKey /\ proc[p].dkey = NoKey
      => proc[p].result = Ok(proc[p].value)

\* C1 witness: get_value returned a non-empty payload whose root took a
\* pack recursion
RoundTripUnencryptedWitness ==
  \E p \in DOMAIN proc :
    /\ ReadOwnRoot(proc[p]) /\ proc[p].op = "get_value"
    /\ proc[p].key = NoKey /\ proc[p].dkey = NoKey
    /\ proc[p].level >= 1 /\ proc[p].value # <<>>
    /\ proc[p].result = Ok(proc[p].value)

\* C2: a payload created with key k and read back with the same key k comes
\* back exactly
RoundTripEncrypted ==
  \A p \in DOMAIN proc :
    ReadOwnRoot(proc[p]) /\ proc[p].key # NoKey /\ proc[p].dkey = proc[p].key
      => proc[p].result = Ok(proc[p].value)

\* C2 witness: get_value with the key returned a chunked payload whose root
\* took two pack recursions
RoundTripEncryptedWitness ==
  \E p \in DOMAIN proc :
    /\ ReadOwnRoot(proc[p]) /\ proc[p].op = "get_value"
    /\ proc[p].key # NoKey /\ proc[p].dkey = proc[p].key
    /\ proc[p].level >= 2 /\ Len(proc[p].value) >= 3 * MIN_CHUNK_SIZE
    /\ proc[p].result = Ok(proc[p].value)

\* C3: every object create returns has serialised size at most
\* MAX_IMMUTABLE_DATA_SIZE_IN_BYTES
SizeInvariant ==
  \A p \in DOMAIN proc :
    \A i \in 1..Len(proc[p].root) :
      Len(encode_ImmutableData(proc[p].root[i]))
        <= MAX_IMMUTABLE_DATA_SIZE_IN_BYTES

\* C3 witness: create returned a root of exactly the maximum size after pack
\* had found an object over the limit
SizeInvariantWitness ==
  \E p \in DOMAIN proc :
    /\ proc[p].pc = "created" /\ proc[p].level >= 1
    /\ Len(encode_ImmutableData(proc[p].root[1]))
         = MAX_IMMUTABLE_DATA_SIZE_IN_BYTES

\* C4 (as claimed): pack never goes past DepthLimit levels of recursion; an
\* object still over the limit there ends the invocation instead
PackDepthLimited ==
  \A p \in DOMAIN proc :
    proc[p].pc \in {"create_close", "pack_close", "created"}
      => proc[p].level <= DepthLimit

\* C5 (as claimed): unpack never follows a chain of DataMap envelopes past
\* DepthLimit levels
UnpackDepthLimited ==
  \A p \in DOMAIN proc :
    proc[p].op # "none" => proc[p].level <= DepthLimit

\* C6 (as claimed): reading with a key what was created without one fails
\* with SerializationFailure or SymmetricDecipherFailure
CrossModePlainWrittenKeyRead ==
  \A p \in DOMAIN proc :
    ReadOwnRoot(proc[p]) /\ proc[p].key = NoKey /\ proc[p].dkey # NoKey
      => /\ proc[p].result.kind = "err"
         /\ proc[p].result.err \in {"SerializationFailure",
                                    "SymmetricDecipherFailure"}

\* C7 (as claimed): reading without a key what was created with one fails
CrossModeKeyWrittenPlainRead ==
  \A p \in DOMAIN proc :
    ReadOwnRoot(proc[p]) /\ proc[p].key # NoKey /\ proc[p].dkey = NoKey
      => proc[p].result.kind = "err"

\* C8: once create has returned the root, every chunk its self-encryptors
\* emitted is in the store and none is still to be written
WritesCompleteBeforeRoot ==
  \A p \in DOMAIN proc :
    proc[p].root # <<>>
      => /\ proc[p].pend = <<>>
         /\ proc[p].emitted \subseteq DOMAIN store
         /\ proc[p].emitted = proc[p].wrote

\* C8 witness: create returned a root after both the outer self-encryption
\* and a pack level had chunks to write
WritesCompleteBeforeRootWitness ==
  \E p \in DOMAIN proc :
    /\ proc[p].pc = "created" /\ proc[p].level >= 1
    /\ Names(se_chunks(proc[p].value)) # {}
    /\ Cardinality(proc[p].emitted) > Cardinality(Names(se_chunks(proc[p].value)))

\* C9: when create has returned, the store holds the chunks written through
\* the self-encryption storage and nothing else; the root's name is not in
\* it before the caller's PUT
CreateDoesNotPutRoot ==
  \A p \in DOMAIN proc :
    proc[p].pc = "created"
      => /\ DOMAIN store = proc[p].wrote
         /\ proc[p].root[1].name \notin DOMAIN store

\* C9 witness: create returned with chunks in the store and the root absent
CreateDoesNotPutRootWitness ==
  \E p \in DOMAIN proc :
    /\ proc[p].pc = "created"
    /\ DOMAIN store # {}
    /\ proc[p].root[1].name \notin DOMAIN store

\* C10: get_value issues one network GET; an immutable answer is the object
\* handed to extract_value; an answer of another type ends get_value with
\* ReceivedUnexpectedData and extract_value is not run
GetContract ==
  \A p \in DOMAIN proc :
    proc[p].op = "get_value"
      => /\ proc[p].gets = 1
         /\ proc[p].reply = "Immutable"
              => /\ proc[p].extracts = 1
                 /\ proc[p].data =
                      <<ImmutableData_new(store[proc[p].name[1]])>>
         /\ proc[p].reply = "Structured"
              => /\ proc[p].pc = "done"
                 /\ proc[p].result = Err("ReceivedUnexpectedData")
                 /\ proc[p].extracts = 0

\* C10 witness: the network answered a get of a stored root with data of
\* another type
GetContractWitness ==
  \E p \in DOMAIN proc :
    /\ proc[p].op = "get_value" /\ proc[p].reply = "Structured"
    /\ proc[p].name[1] \in DOMAIN store
    /\ proc[p].result = Err("ReceivedUnexpectedData")

\* the error of the first step that fails when the steps that follow unpack's
\* receipt of an object with this value run in order without suspending:
\* envelope decoding, then (for a Serialised envelope) the opening of the
\* box when a key is given and the decoding of the data map; "" when none
\* fails
FirstError(value, dkey) ==
  LET enc == decode_DataTypeEncoding(value) IN
  IF ~enc.ok THEN "SerializationFailure"
  ELSE IF enc.val.tag = "DataMap" THEN ""
  ELSE LET box == decode_SymmetricEnc(enc.val.bytes) IN
       IF dkey # NoKey /\ ~box.ok THEN "SerializationFailure"
       ELSE IF dkey # NoKey
               /\ ~open(dkey, box.val.nonce, box.val.cipher_text).ok
       THEN "SymmetricDecipherFailure"
       ELSE IF ~decode_data_map(
                  IF dkey # NoKey
                  THEN open(dkey, box.val.nonce, box.val.cipher_text).val
                  ELSE enc.val.bytes).ok
       THEN "SerializationFailure"
       ELSE ""

\* the error of the first step that fails in the step that takes a task from
\* frame f to frame g without a storage operation, "" when none fails
SyncError(f, g) ==
  IF f.pc = "get"
  THEN IF g.reply = "Immutable"
       THEN FirstError(store[f.name[1]], f.dkey)
       ELSE IF g.reply = "Structured" THEN "ReceivedUnexpectedData"
       ELSE g.reply
  ELSE IF f.pc = "unpack_read"
  THEN LET data == decode_ImmutableData(se_read(f.map, f.got)) IN
       IF ~data.ok THEN "SerializationFailure"
       ELSE FirstError(data.val.value, f.dkey)
  ELSE FirstError(f.root[1].value, g.dkey)

\* task p takes a step made of the closures run on an answer, no storage
\* operation: get's answer arrives, extract_value is called, or unpack's
\* read resolves
SyncStep(f, g) ==
  /\ g # f
  /\ g.pc # "dropped"
  /\ \/ f.pc = "get"
     \/ f.pc = "unpack_read" /\ f.need = <<>>
     \/ f.pc \in {"created", "stored"} /\ g.op = "extract_value"

\* C11: a failing step ends the operation with that step's error: a failed
\* storage operation with SelfEncryptionFailure, a failed GET with the
\* network's error, a failed decoding with SerializationFailure, a failed
\* opening with SymmetricDecipherFailure; the first step to fail decides,
\* no step fails unnoticed, nothing is stored in the failing step and
\* nothing of the operation runs after it
ErrorsShortCircuit ==
  [][\A p \in DOMAIN proc :
       LET f == proc[p]
           g == proc'[p]
       IN /\ f.result.kind = "err" => g = f
          /\ f.result.kind = "none" /\ g.result.kind = "err"
               => /\ g.pc = "done"
                  /\ store' = store
                  /\ (f.pc = "get" /\ g.reply # "Immutable")
                       => g.extracts = f.extracts
          /\ f.result.kind = "none" /\ g.result.kind = "err" /\ ~SyncStep(f, g)
               => /\ f.pc \in {"create_close", "pack_close", "unpack_read",
                                "extract_read"}
                  /\ g.result.err = "SelfEncryptionFailure"
          /\ f.result.kind = "none" /\ SyncStep(f, g)
               => IF SyncError(f, g) = "" THEN g.result.kind # "err"
                  ELSE g.result = Err(SyncError(f, g))]_vars

\* C11 witness: get_value ended with SerializationFailure on an object
\* that unpack had read at a level below the root
ErrorsShortCircuitWitness ==
  \E p \in DOMAIN proc :
    /\ proc[p].op = "get_value" /\ proc[p].pc = "done"
    /\ proc[p].level >= 1
    /\ proc[p].result = Err("SerializationFailure")

\* C12: the value of every root create returned decodes, whole, as a
\* DataTypeEncoding, of variant Serialised when pack did not recurse and of
\* variant DataMap when it did; and every object unpack is about to rebuild
\* from the chunks below such a root decodes as an object whose value
\* decodes as a DataTypeEncoding
EnvelopeInvariant ==
  \A p \in DOMAIN proc :
    /\ \A i \in 1..Len(proc[p].root) :
         LET enc == decode_DataTypeEncoding(proc[p].root[i].value) IN
         /\ enc.ok /\ enc.rest = <<>>
         /\ proc[p].op = "none"
              => enc.val.tag = (IF proc[p].level = 0 THEN "Serialised"
                                ELSE "DataMap")
    /\ proc[p].pc = "unpack_read" /\ proc[p].need = <<>>
       /\ proc[p].data = proc[p].root
         => LET data == decode_ImmutableData(
                          se_read(proc[p].map, proc[p].got))
            IN /\ data.ok /\ data.rest = <<>>
               /\ decode_DataTypeEncoding(data.val.value).ok
               /\ decode_DataTypeEncoding(data.val.value).rest = <<>>

\* C12 witness: unpack, two levels below a root create returned, has read
\* the chunks of an intermediate object and is about to rebuild it
EnvelopeInvariantWitness ==
  \E p \in DOMAIN proc :
    /\ proc[p].pc = "unpack_read" /\ proc[p].need = <<>>
    /\ proc[p].root # <<>> /\ proc[p].data = proc[p].root
    /\ proc[p].level >= 2
    /\ decode_DataTypeEncoding(proc[p].root[1].value).val.tag = "DataMap"

\* create of task p has ended without a root: it failed, or its future was
\* dropped before it resolved
CreateEndedWithoutRoot(f) ==
  /\ f.op = "none"
  /\ \/ f.pc = "dropped"
     \/ f.pc = "done" /\ f.result.kind = "err"

\* C13: when create has failed or its future has been dropped, the caller
\* holds no root, every chunk the invocation wrote is still in the store
\* under its name, and the store holds nothing else beyond what it held
\* before, unchanged
NoRootNoRollback ==
  \A p \in DOMAIN proc :
    CreateEndedWithoutRoot(proc[p])
      => /\ proc[p].root = <<>>
         /\ proc[p].wrote \subseteq DOMAIN store
         /\ \A n \in proc[p].wrote : XorNameOf(store[n]) = n
         /\ DOMAIN store = DOMAIN MalformedStore \cup proc[p].wrote
         /\ \A n \in DOMAIN MalformedStore : store[n] = MalformedStore[n]

\* C13 witness: a create failed inside pack with chunks written and chunks
\* still to write
NoRootNoRollbackWitness ==
  \E p \in DOMAIN proc :
    /\ CreateEndedWithoutRoot(proc[p]) /\ proc[p].pc = "done"
    /\ proc[p].level >= 1
    /\ proc[p].wrote # {} /\ proc[p].pend # <<>>
    /\ Names(se_chunks(proc[p].value)) # {}

\* C13 witness, dropped future: a create was dropped with chunks written
\* and chunks still to write
DroppedCreateWitness ==
  \E p \in DOMAIN proc :
    /\ CreateEndedWithoutRoot(proc[p]) /\ proc[p].pc = "dropped"
    /\ proc[p].wrote # {} /\ proc[p].pend # <<>>

\* C14: the roots of two create(v, None) with the same v are the same
\* object, name and value, and are the object create(v, None) returns on an
\* empty store with nothing else running
DeterministicNaming ==
  \A p, q \in DOMAIN proc :
    /\ proc[p].root # <<>> /\ proc[q].root # <<>>
    /\ proc[p].key = NoKey /\ proc[q].key = NoKey
    /\ proc[p].value = proc[q].value
    => /\ proc[p].root[1].name = proc[q].root[1].name
       /\ proc[p].root[1].value = proc[q].root[1].value
       /\ proc[p].root[1] = create_alone(proc[p].value, NoKey, B(0))

\* C14 witness: two tasks created the payload that was already stored, each
\* through a pack recursion, and both hold their root
DeterministicNamingWitness ==
  \E p, q \in DOMAIN proc :
    /\ p # q
    /\ proc[p].pc = "created" /\ proc[q].pc = "created"
    /\ proc[p].key = NoKey /\ proc[q].key = NoKey
    /\ proc[p].value = StoredPayload /\ proc[q].value = StoredPayload
    /\ proc[p].level >= 1 /\ proc[q].level >= 1
    /\ proc[p].root[1].name \in DOMAIN store

\* C15: what symmetric_encrypt returned parses as the container, carries
\* the nonce supplied when one was supplied and in any case the nonce the
\* text was sealed with, and symmetric_decrypt with the same key returns
\* exactly the plain text
AeadRoundTrip ==
  /\ call.fn \in {"encrypted", "decrypted"} /\ call.altered = "no"
       => LET enc == decode_SymmetricEnc(call.blob) IN
          /\ enc.ok /\ enc.rest = <<>>
          /\ call.nonce # <<>> => enc.val.nonce = call.nonce[1]
          /\ enc.val.nonce = call.used
          /\ open(call.key, enc.val.nonce, enc.val.cipher_text)
               = ParseOk(call.plain, <<>>)
  /\ call.fn = "decrypted" /\ call.altered = "no" /\ call.dkey = call.key
       => call.out = Ok(call.plain)

\* C15 witness: a non-empty text sealed with a supplied nonce came back
\* from symmetric_decrypt
AeadRoundTripWitness ==
  /\ call.fn = "decrypted" /\ call.altered = "no"
  /\ call.dkey = call.key /\ call.nonce # <<>>
  /\ call.plain # <<>> /\ call.out = Ok(call.plain)

\* C16: symmetric_decrypt with another key than the sealing key fails with
\* SymmetricDecipherFailure; so it does, under any key, on a container
\* whose cipher text was truncated or changed or whose nonce was changed;
\* bytes that do not parse as the container fail with SerializationFailure;
\* none of these returns bytes
DecryptFailures ==
  call.fn = "decrypted"
    => /\ call.altered = "no" /\ call.dkey # call.key
            => call.out = Err("SymmetricDecipherFailure")
       /\ call.altered \in {"cipher text truncated", "cipher text changed",
                             "nonce changed"}
            => call.out = Err("SymmetricDecipherFailure")
       /\ ~decode_SymmetricEnc(call.blob).ok
            => call.out = Err("SerializationFailure")
       /\ call.altered = "blob truncated"
            => call.out = Err("SerializationFailure")

\* C16 witness: the container of a non-empty text, its cipher text changed
\* in one place, was rejected under the sealing key
DecryptFailuresWitness ==
  /\ call.fn = "decrypted" /\ call.altered = "cipher text changed"
  /\ call.dkey = call.key /\ call.plain # <<>>
  /\ call.out = Err("SymmetricDecipherFailure")

\* C17: derive_secrets returns three vectors of DIGESTBYTES each: keyword
\* the digest of the locator, pin the digest of the second half of keyword,
\* password the digest of the pass-phrase; keyword differs from pin; password
\* equals keyword only when locator and pass-phrase are the same bytes, and
\* does so when both are empty
SecretsDerivation ==
  call.fn = "derived"
    => LET password == call.secrets[1]
           keyword == call.secrets[2]
           pin == call.secrets[3]
       IN /\ Len(call.secrets) = 3
          /\ Len(password) = DIGESTBYTES
          /\ Len(keyword) = DIGESTBYTES
          /\ Len(pin) = DIGESTBYTES
          /\ keyword = sha512_hash(call.locator)
          /\ pin = sha512_hash(SubSeq(keyword, DIGESTBYTES \div 2 + 1,
                                      DIGESTBYTES))
          /\ password = sha512_hash(call.passphrase)
          /\ keyword # pin
          /\ password = keyword => call.locator = call.passphrase
          /\ call.locator = <<>> /\ call.passphrase = <<>>
               => password = keyword

\* C17 witness: the secrets of the empty locator and the empty pass-phrase
SecretsDerivationWitness ==
  /\ call.fn = "derived"
  /\ call.locator = <<>> /\ call.passphrase = <<>>
  /\ call.secrets[1] = call.secrets[2]
  /\ call.secrets[2] # call.secrets[3]

\* C18 (as claimed): for every locator and pass-phrase the password differs
\* from the pin
PasswordIsNotPin ==
  call.fn = "derived" => call.secrets[1] # call.secrets[3]

\* the values pack can be called with in the step that takes a task on
\* from frame f: create's envelope when create's close() has resolved, the
\* DataMap envelope of the data map when pack's close() has resolved
PackInputs(f) ==
  IF f.pc = "pack_close"
  THEN {encode_DataTypeEncoding(DataMap(f.map))}
  ELSE {create_envelope(f.value, f.key, nonce) : nonce \in NonceChoices}

\* what a call of pack on value does to a task, from frame f to frame g
PackEffect(f, g, value) ==
  LET data == ImmutableData_new(value)
      serialised_data == encode_ImmutableData(data)
  IN IF Len(serialised_data) <= MAX_IMMUTABLE_DATA_SIZE_IN_BYTES
     THEN /\ g.pc = "created"
          /\ g.root = <<data>>
          /\ g.root[1].value = value
          /\ g.pend = <<>>
          /\ g.emitted = f.emitted
          /\ g.wrote = f.wrote
     ELSE /\ g.pc = "pack_close"
          /\ g.root = <<>>
          /\ g.pend = se_chunks(serialised_data)
          /\ g.map = se_data_map(serialised_data)
          /\ se_read(g.map, g.pend) = serialised_data
          /\ g.emitted = f.emitted \cup Names(se_chunks(serialised_data))
          /\ g.wrote = f.wrote

\* C19: every call of pack compares the size of the serialised object with
\* the maximum: at most the maximum, it returns the object of the value it
\* was given, with no chunk emitted or written; over it, it self-encrypts
\* the whole serialised object and, when that is closed, is called again
\* on the DataMap envelope of the data map; the store is not touched in the
\* step of the call
PackSizeCheck ==
  [][\A p \in DOMAIN proc :
       LET f == proc[p]
           g == proc'[p]
       IN f.pc \in {"create_close", "pack_close"} /\ f.pend = <<>>
          /\ g # f /\ g.pc \notin {"done", "dropped"}
            => /\ store' = store
               /\ \E value \in PackInputs(f) : PackEffect(f, g, value)]_vars

\* C19 witness: create's envelope made an object of exactly the maximum
\* size and pack returned it at once, with only the chunks of the payload
\* emitted
PackSizeCheckWitness ==
  \E p \in DOMAIN proc :
    /\ proc[p].pc = "created" /\ proc[p].level = 0
    /\ Len(encode_ImmutableData(proc[p].root[1]))
         = MAX_IMMUTABLE_DATA_SIZE_IN_BYTES
    /\ Len(proc[p].root[1].value) < MAX_IMMUTABLE_DATA_SIZE_IN_BYTES
    /\ proc[p].emitted = Names(se_chunks(proc[p].value))
    /\ proc[p].wrote = proc[p].emitted

\* the chunks a create run alone stores
create_alone_chunks(value, encryption_key, nonce) ==
  se_chunks(value)
  \o pack_alone_chunks(create_envelope(value, encryption_key, nonce))

\* the store as task p would have it with nothing else running: what was
\* stored before, and what p wrote
AloneStore(f) ==
  [n \in (DOMAIN StoredStore \cup f.wrote) \cap DOMAIN store |-> store[n]]

\* C20: with two tasks interleaved at their storage and network steps,
\* every create returns the root, and has stored the chunks, of the same
\* create run alone; extract_value on that root, and get_value of the object
\* stored before, return what they return on the store without the other
\* task's writes; every chunk written and every object stored before is in
\* the store with its content
NonInterference ==
  /\ \A n \in DOMAIN StoredStore :
       n \in DOMAIN store /\ store[n] = StoredStore[n]
  /\ \A p \in DOMAIN proc :
      /\ proc[p].pc = "created"
           => \E nonce \in NonceChoices :
                /\ proc[p].root[1]
                     = create_alone(proc[p].value, proc[p].key, nonce)
                /\ LET chunks == create_alone_chunks(proc[p].value,
                                                     proc[p].key, nonce)
                   IN \A i \in 1..Len(chunks) :
                        /\ XorNameOf(chunks[i]) \in DOMAIN store
                        /\ store[XorNameOf(chunks[i])] = chunks[i]
      /\ proc[p].pc = "done" /\ proc[p].op = "extract_value"
           => proc[p].result
                = extract_value_alone(AloneStore(proc[p]),
                                      proc[p].root[1].value, proc[p].dkey)
      /\ proc[p].pc = "done" /\ proc[p].op = "get_value"
         /\ proc[p].name = <<StoredRoot.name>>
         /\ proc[p].reply = "Immutable"
           => proc[p].result
                = extract_value_alone(StoredStore, StoredRoot.value,
                                      proc[p].dkey)
      /\ \A n \in proc[p].wrote :
           n \in DOMAIN store /\ XorNameOf(store[n]) = n

\* C20 witness: one task has read back the payload stored before while
\* the other, creating with a key, is inside pack with chunks written and
\* chunks still to write
NonInterferenceWitness ==
  \E p, q \in DOMAIN proc :
    /\ p # q
    /\ proc[p].pc = "pack_close" /\ proc[p].key # NoKey
    /\ proc[p].wrote # {} /\ proc[p].pend # <<>>
    /\ proc[q].pc = "done" /\ proc[q].op = "get_value"
    /\ proc[q].root = <<>>
    /\ proc[q].name = <<StoredRoot.name>>
    /\ proc[q].result = Ok(StoredPayload)

\* C20 witness, two creates: both tasks hold a root, one created with a
\* key and one without
TwoCreatesWitness ==
  \E p, q \in DOMAIN proc :
    /\ proc[p].pc = "created" /\ proc[q].pc = "created"
    /\ proc[p].key # NoKey /\ proc[q].key = NoKey
    /\ proc[p].level >= 2

====
